---- MODULE Spec2Model ----
(***************************************************************************)
(* PyRat engine: the turn state machine of GameState (process_turn,        *)
(* make_move, unmake_move), with the move table and the cheese board it    *)
(* owns.                                                                   *)
(*                                                                         *)
(* Scores are f32 in the source and only ever grow by 0.5 or 1.0 from 0.0; *)
(* every such value is exact in f32, so a score is modelled by the number  *)
(* of half points it holds (score = 2 means 1.0).                          *)
(***************************************************************************)
EXTENDS Integers, Sequences, FiniteSets, TLC

\* ------------------------------------------------------------------ bounds
Width == 2
Height == 2
\* largest mud cost put on an edge of the initial mud map
MaxMud == 2
\* process_turn is not offered once the turn counter has reached TurnCap
TurnCap == 3
\* make_move is not offered once MaxUndo undo records are outstanding
MaxUndo == 2

\* the board of the move-table specification
BoardWidth == 3
BoardHeight == 3
\* the largest number of (cell, blocked cell) listings in a wall map
MaxListed == 2

\* place_cheese is not offered to the cheese-board specification once
\* initial_cheese_count has reached MaxPlaced
MaxPlaced == 3

\* MudMap.insert on a new edge is not offered to the mud-map specification
\* once MaxInserted edges are stored
MaxInserted == 2

\* the board of the maze generator (MazeConfig.width, MazeConfig.height);
\* MazeConfig.mud_range is MaxMud
MazeMaxCells == 6
MaxCheeseList == 3
CheeseMaxCells == 9
MaxPick == 2

\* ------------------------------------------------------- program constants
U8Max == 255
U16Mod == 65536
\* max_turns of test_max_turns
ShortMaxTurns == 2

\* ---------------------------------------------------------------- types.rs
Up == 0
Right == 1
Down == 2
Left == 3
Stay == 4
Direction == {Up, Right, Down, Left, Stay}

Min(a, b) == IF a < b THEN a ELSE b
Max(a, b) == IF a > b THEN a ELSE b

Coordinates(x, y) == <<x, y>>
Cells == (0 .. Width - 1) \X (0 .. Height - 1)

to_index(pos, width) == pos[2] * width + pos[1]

\* saturating u8 arithmetic
apply_to(dir, pos) ==
    CASE dir = Up    -> <<pos[1], Min(pos[2] + 1, U8Max)>>
      [] dir = Down  -> <<pos[1], Max(pos[2] - 1, 0)>>
      [] dir = Left  -> <<Max(pos[1] - 1, 0), pos[2]>>
      [] dir = Right -> <<Min(pos[1] + 1, U8Max), pos[2]>>
      [] OTHER       -> pos

\* ---------------------------------------------------------------- board.rs
\* walls: a function from some cells to the set of cells listed as blocked
has_wall(walls, from, direction) ==
    IF from \in DOMAIN walls
    THEN LET to == apply_to(direction, from) IN
         IF to \in walls[from] THEN TRUE
         ELSE IF to \in DOMAIN walls THEN from \in walls[to]
         ELSE FALSE
    ELSE FALSE

Pow2(n) == IF n = 0 THEN 1 ELSE IF n = 1 THEN 2 ELSE IF n = 2 THEN 4 ELSE 8

\* cell_moves with the upper bounds off by one
cell_moves_off_by_one(width, height, walls, pos) ==
      (IF pos[2] < height /\ ~has_wall(walls, pos, Up) THEN 1 ELSE 0)
    + (IF pos[1] < width /\ ~has_wall(walls, pos, Right) THEN 2 ELSE 0)
    + (IF pos[2] > 0 /\ ~has_wall(walls, pos, Down) THEN 4 ELSE 0)
    + (IF pos[1] > 0 /\ ~has_wall(walls, pos, Left) THEN 8 ELSE 0)

\* the 4-bit mask of one cell (bit 0 Up, 1 Right, 2 Down, 3 Left)
cell_moves(width, height, walls, pos) ==
      (IF pos[2] < height - 1 /\ ~has_wall(walls, pos, Up) THEN 1 ELSE 0)
    + (IF pos[1] < width - 1 /\ ~has_wall(walls, pos, Right) THEN 2 ELSE 0)
    + (IF pos[2] > 0 /\ ~has_wall(walls, pos, Down) THEN 4 ELSE 0)
    + (IF pos[1] > 0 /\ ~has_wall(walls, pos, Left) THEN 8 ELSE 0)

\* valid_moves: byte b holds cell 2b in its low half and cell 2b+1 in its
\* high half; each half is written once into a zeroed byte, so |= adds
MoveTable_new(width, height, walls) ==
    LET size == (width * height + 1) \div 2
        cellAt(idx) == <<idx % width, idx \div width>>
        half(idx) == IF idx < width * height
                     THEN cell_moves(width, height, walls, cellAt(idx))
                     ELSE 0
    IN [valid_moves |-> [b \in 0 .. size - 1 |-> half(2 * b) + 16 * half(2 * b + 1)],
        width |-> width]

get_valid_moves(table, pos) ==
    LET idx == to_index(pos, table.width)
        moves == table.valid_moves[idx \div 2]
    IN IF idx % 2 = 0 THEN moves % 16 ELSE moves \div 16

is_move_valid(table, pos, direction) ==
    LET idx == to_index(pos, table.width)
        moves == table.valid_moves[idx \div 2]
        position_moves == IF idx % 2 = 0 THEN moves % 16 ELSE moves \div 16
    IN (position_moves \div Pow2(direction)) % 2 = 1

\* --------------------------------------------------------- cheese_board.rs
\* bits: the set of the indices of the bits that are set
CheeseBoard_new == [bits |-> {}, initial_cheese_count |-> 0, remaining_cheese_count |-> 0]

has_cheese(board, pos) == to_index(pos, Width) \in board.bits

\* place_cheese without the test for a cheese already there
place_cheese_unchecked(board, pos) ==
    [board |-> [bits |-> board.bits \cup {to_index(pos, Width)},
                initial_cheese_count |-> (board.initial_cheese_count + 1) % U16Mod,
                remaining_cheese_count |-> (board.remaining_cheese_count + 1) % U16Mod],
     ok |-> TRUE]

place_cheese(board, pos) ==
    IF has_cheese(board, pos)
    THEN [board |-> board, ok |-> FALSE]
    ELSE [board |-> [bits |-> board.bits \cup {to_index(pos, Width)},
                     initial_cheese_count |-> (board.initial_cheese_count + 1) % U16Mod,
                     remaining_cheese_count |-> (board.remaining_cheese_count + 1) % U16Mod],
          ok |-> TRUE]

\* restore_cheese written as a second place_cheese
restore_cheese_counts_initial(board, pos) ==
    IF has_cheese(board, pos)
    THEN [board |-> board, ok |-> FALSE]
    ELSE [board |-> [bits |-> board.bits \cup {to_index(pos, Width)},
                     initial_cheese_count |-> (board.initial_cheese_count + 1) % U16Mod,
                     remaining_cheese_count |-> (board.remaining_cheese_count + 1) % U16Mod],
          ok |-> TRUE]

restore_cheese(board, pos) ==
    IF has_cheese(board, pos)
    THEN [board |-> board, ok |-> FALSE]
    ELSE [board |-> [board EXCEPT !.bits = @ \cup {to_index(pos, Width)},
                                  !.remaining_cheese_count = (@ + 1) % U16Mod],
          ok |-> TRUE]

\* take_cheese taking the cheese off both counters
take_cheese_both_counters(board, pos) ==
    IF has_cheese(board, pos)
    THEN [board |-> [bits |-> board.bits \ {to_index(pos, Width)},
                     initial_cheese_count |-> (board.initial_cheese_count - 1) % U16Mod,
                     remaining_cheese_count |-> (board.remaining_cheese_count - 1) % U16Mod],
          ok |-> TRUE]
    ELSE [board |-> board, ok |-> FALSE]

\* take_cheese that clears the cell and leaves remaining_cheese_count
take_cheese_keeps_remaining(board, pos) ==
    IF has_cheese(board, pos)
    THEN [board |-> [board EXCEPT !.bits = @ \ {to_index(pos, Width)}], ok |-> TRUE]
    ELSE [board |-> board, ok |-> FALSE]

take_cheese(board, pos) ==
    IF has_cheese(board, pos)
    THEN [board |-> [board EXCEPT !.bits = @ \ {to_index(pos, Width)},
                                  !.remaining_cheese_count = (@ - 1) % U16Mod],
          ok |-> TRUE]
    ELSE [board |-> board, ok |-> FALSE]

RECURSIVE place_all(_, _)
place_all(board, positions) ==
    IF positions = <<>> THEN board
    ELSE place_all(place_cheese(board, Head(positions)).board, Tail(positions))

RECURSIVE restore_all(_, _)
restore_all(board, positions) ==
    IF positions = <<>> THEN board
    ELSE restore_all(restore_cheese(board, Head(positions)).board, Tail(positions))

\* ------------------------------------------------------------------ game.rs
VARIABLES
    wall_map,     \* the wall map the move table was built from
    move_table,   \* GameState.move_table
    mud,          \* GameState.mud: HashMap<(Coordinates, Coordinates), u8>
    max_turns,    \* GameState.max_turns
    player,       \* GameState.player1, GameState.player2
    cheese,       \* GameState.cheese
    turn,         \* GameState.turn
    undos,        \* the caller's stack of MoveUndo records
    entry,        \* history: per player, the mud edge it last entered
    last,         \* history: the last operation, what its directions asked for,
                  \* the TurnResult it returned, the number of cheeses it restored
    mud_map,      \* MudMap.inner of a mud map on its own
    runs,         \* the MazeGenerator runs under way, one record per run
    cheese_gen,   \* the CheeseGenerator.generate call under way
    ghost,        \* history of the specifications of the parts
    observation_handler  \* PyRat.observation_handler of a wrapped game

game_vars == <<wall_map, move_table, mud, max_turns, player, cheese, turn, undos, entry, last>>
part_vars == <<mud_map, runs, cheese_gen, ghost, observation_handler>>
vars == <<game_vars, part_vars>>

\* the parts that a specification does not exercise
NoCall == [pc |-> "idle"]
NoHandler == <<>>
PartsIdle ==
    /\ mud_map = <<>>
    /\ runs = <<>>
    /\ cheese_gen = NoCall
    /\ ghost = <<>>
    /\ observation_handler = NoHandler

Players == {1, 2}
NoEntry == [cost |-> 0, from |-> <<0, 0>>, to |-> <<0, 0>>, elapsed |-> 0]

PlayerState(pos) ==
    [current_pos |-> pos, target_pos |-> pos, mud_timer |-> 0, score |-> 0, misses |-> 0]

is_in_mud(p) == p.mud_timer > 0

\* can_collect_cheese without the mud test
can_collect_cheese_always(p) == TRUE

can_collect_cheese(p) == ~is_in_mud(p)

\* MudMap::get of the engine's types.rs over a map m: the pair is looked up
\* in the order given, then in the other order; 0 stands for None
MudMap_get(m, pos1, pos2) ==
    IF <<pos1, pos2>> \in DOMAIN m THEN m[<<pos1, pos2>>]
    ELSE IF <<pos2, pos1>> \in DOMAIN m THEN m[<<pos2, pos1>>]
    ELSE 0

\* self.mud.get(&(a, b)).copied().unwrap_or(0)
mud_get(a, b) == IF <<a, b>> \in DOMAIN mud THEN mud[<<a, b>>] ELSE 0

\* compute_player_move without the move-table test
compute_player_move_unchecked(p, move_dir) ==
    IF is_in_mud(p) THEN [moved |-> FALSE, pos |-> p.current_pos]
    ELSE IF move_dir = Stay THEN [moved |-> FALSE, pos |-> p.current_pos]
    ELSE [moved |-> TRUE, pos |-> apply_to(move_dir, p.current_pos)]

compute_player_move(p, move_dir) ==
    IF is_in_mud(p) THEN [moved |-> FALSE, pos |-> p.current_pos]
    ELSE IF move_dir = Stay THEN [moved |-> FALSE, pos |-> p.current_pos]
    ELSE IF ~is_move_valid(move_table, p.current_pos, move_dir)
         THEN [moved |-> FALSE, pos |-> p.current_pos]
    ELSE [moved |-> TRUE, pos |-> apply_to(move_dir, p.current_pos)]

\* update_player entering mud only above a cost of 2
update_player_threshold(p, moved, new_pos) ==
    IF p.mud_timer > 0
    THEN LET t == p.mud_timer - 1 IN
         [p EXCEPT !.mud_timer = t,
                   !.current_pos = IF t = 0 THEN p.target_pos ELSE @]
    ELSE IF moved
    THEN LET mud_time == mud_get(p.current_pos, new_pos) IN
         IF mud_time > 2
         THEN [p EXCEPT !.mud_timer = mud_time, !.target_pos = new_pos]
         ELSE [p EXCEPT !.mud_timer = mud_time, !.current_pos = new_pos,
                        !.target_pos = new_pos]
    ELSE p

\* update_player entering mud with the timer at cost - 1
update_player_timer_minus_one(p, moved, new_pos) ==
    IF p.mud_timer > 0
    THEN LET t == p.mud_timer - 1 IN
         [p EXCEPT !.mud_timer = t,
                   !.current_pos = IF t = 0 THEN p.target_pos ELSE @]
    ELSE IF moved
    THEN LET mud_time == mud_get(p.current_pos, new_pos) IN
         IF mud_time > 1
         THEN [p EXCEPT !.mud_timer = mud_time - 1, !.target_pos = new_pos]
         ELSE [p EXCEPT !.mud_timer = mud_time, !.current_pos = new_pos,
                        !.target_pos = new_pos]
    ELSE p

\* update_player completing the move one tick early
update_player_early_arrival(p, moved, new_pos) ==
    IF p.mud_timer > 0
    THEN LET t == p.mud_timer - 1 IN
         [p EXCEPT !.mud_timer = t,
                   !.current_pos = IF t <= 1 THEN p.target_pos ELSE @]
    ELSE IF moved
    THEN LET mud_time == mud_get(p.current_pos, new_pos) IN
         IF mud_time > 1
         THEN [p EXCEPT !.mud_timer = mud_time, !.target_pos = new_pos]
         ELSE [p EXCEPT !.mud_timer = mud_time, !.current_pos = new_pos,
                        !.target_pos = new_pos]
    ELSE p

\* the update of one player: the mud tick or the new move
update_player(p, moved, new_pos) ==
    IF p.mud_timer > 0
    THEN LET t == p.mud_timer - 1 IN
         [p EXCEPT !.mud_timer = t,
                   !.current_pos = IF t = 0 THEN p.target_pos ELSE @]
    ELSE IF moved
    THEN LET mud_time == mud_get(p.current_pos, new_pos) IN
         IF mud_time > 1
         THEN [p EXCEPT !.mud_timer = mud_time, !.target_pos = new_pos]
         ELSE [p EXCEPT !.mud_timer = mud_time, !.current_pos = new_pos,
                        !.target_pos = new_pos]
    ELSE p

\* "Process any remaining movement"
finish_move(p) ==
    IF p.mud_timer = 0 /\ p.current_pos # p.target_pos
    THEN [p EXCEPT !.current_pos = p.target_pos]
    ELSE p

\* "Increment misses if position didn't change"
\* count_miss comparing the target cell with the start cell
count_miss_by_target(p, start_pos) ==
    IF p.target_pos # start_pos THEN p
    ELSE [p EXCEPT !.misses = (@ + 1) % U16Mod]

\* count_miss that lets a player in mud off
count_miss_unless_in_mud(p, start_pos) ==
    IF p.current_pos # start_pos \/ p.mud_timer > 0 THEN p
    ELSE [p EXCEPT !.misses = (@ + 1) % U16Mod]

count_miss(p, start_pos) ==
    IF p.current_pos # start_pos THEN p
    ELSE [p EXCEPT !.misses = (@ + 1) % U16Mod]

\* what process_moves does to one player
move_player(p, move_dir) ==
    LET cm == compute_player_move(p, move_dir)
    IN count_miss(finish_move(update_player(p, cm.moved, cm.pos)), p.current_pos)

\* process_moves in which player 2 gives way: it stays as it was when its
\* move would end on the cell player 1 ends on
process_moves_giving_way(pl, dirs) ==
    LET moved == [i \in Players |-> move_player(pl[i], dirs[i])]
        new == IF moved[1].current_pos = moved[2].current_pos
                  /\ moved[2].current_pos # pl[2].current_pos
               THEN [moved EXCEPT ![2] = pl[2]]
               ELSE moved
    IN [player |-> new,
        moved |-> [i \in Players |-> new[i].current_pos # pl[i].current_pos]]

process_moves(pl, dirs) ==
    LET new == [i \in Players |-> move_player(pl[i], dirs[i])]
    IN [player |-> new,
        moved |-> [i \in Players |-> new[i].current_pos # pl[i].current_pos]]

\* process_cheese_collection giving each player a full point for a shared cheese
process_cheese_collection_full_point(pl, board) ==
    IF can_collect_cheese(pl[1]) /\ can_collect_cheese(pl[2])
       /\ pl[1].current_pos = pl[2].current_pos
    THEN LET t == take_cheese(board, pl[1].current_pos) IN
         IF t.ok
         THEN [player |-> [i \in Players |-> [pl[i] EXCEPT !.score = @ + 2]],
               cheese |-> t.board,
               collected |-> <<pl[1].current_pos>>]
         ELSE [player |-> pl, cheese |-> board, collected |-> <<>>]
    ELSE LET t1 == IF can_collect_cheese(pl[1])
                   THEN take_cheese(board, pl[1].current_pos)
                   ELSE [board |-> board, ok |-> FALSE]
             t2 == IF can_collect_cheese(pl[2])
                   THEN take_cheese(t1.board, pl[2].current_pos)
                   ELSE [board |-> t1.board, ok |-> FALSE]
         IN [player |-> [i \in Players |->
                           IF (i = 1 /\ t1.ok) \/ (i = 2 /\ t2.ok)
                           THEN [pl[i] EXCEPT !.score = @ + 2]
                           ELSE pl[i]],
             cheese |-> t2.board,
             collected |-> (IF t1.ok THEN <<pl[1].current_pos>> ELSE <<>>)
                           \o (IF t2.ok THEN <<pl[2].current_pos>> ELSE <<>>)]

\* process_cheese_collection recording player 2's cheese without scoring it
process_cheese_collection_p2_unscored(pl, board) ==
    IF can_collect_cheese(pl[1]) /\ can_collect_cheese(pl[2])
       /\ pl[1].current_pos = pl[2].current_pos
    THEN LET t == take_cheese(board, pl[1].current_pos) IN
         IF t.ok
         THEN [player |-> [i \in Players |-> [pl[i] EXCEPT !.score = @ + 1]],
               cheese |-> t.board,
               collected |-> <<pl[1].current_pos>>]
         ELSE [player |-> pl, cheese |-> board, collected |-> <<>>]
    ELSE LET t1 == IF can_collect_cheese(pl[1])
                   THEN take_cheese(board, pl[1].current_pos)
                   ELSE [board |-> board, ok |-> FALSE]
             t2 == IF can_collect_cheese(pl[2])
                   THEN take_cheese(t1.board, pl[2].current_pos)
                   ELSE [board |-> t1.board, ok |-> FALSE]
         IN [player |-> [i \in Players |->
                           IF i = 1 /\ t1.ok
                           THEN [pl[i] EXCEPT !.score = @ + 2]
                           ELSE pl[i]],
             cheese |-> t2.board,
             collected |-> (IF t1.ok THEN <<pl[1].current_pos>> ELSE <<>>)
                           \o (IF t2.ok THEN <<pl[2].current_pos>> ELSE <<>>)]

process_cheese_collection(pl, board) ==
    IF can_collect_cheese(pl[1]) /\ can_collect_cheese(pl[2])
       /\ pl[1].current_pos = pl[2].current_pos
    THEN LET t == take_cheese(board, pl[1].current_pos) IN
         IF t.ok
         THEN [player |-> [i \in Players |-> [pl[i] EXCEPT !.score = @ + 1]],
               cheese |-> t.board,
               collected |-> <<pl[1].current_pos>>]
         ELSE [player |-> pl, cheese |-> board, collected |-> <<>>]
    ELSE LET t1 == IF can_collect_cheese(pl[1])
                   THEN take_cheese(board, pl[1].current_pos)
                   ELSE [board |-> board, ok |-> FALSE]
             t2 == IF can_collect_cheese(pl[2])
                   THEN take_cheese(t1.board, pl[2].current_pos)
                   ELSE [board |-> t1.board, ok |-> FALSE]
         IN [player |-> [i \in Players |->
                           IF (i = 1 /\ t1.ok) \/ (i = 2 /\ t2.ok)
                           THEN [pl[i] EXCEPT !.score = @ + 2]
                           ELSE pl[i]],
             cheese |-> t2.board,
             collected |-> (IF t1.ok THEN <<pl[1].current_pos>> ELSE <<>>)
                           \o (IF t2.ok THEN <<pl[2].current_pos>> ELSE <<>>)]

\* check_game_over with >= for the score test
check_game_over_at_half(pl, board, t) ==
    IF pl[1].score >= board.initial_cheese_count
       \/ pl[2].score >= board.initial_cheese_count
    THEN TRUE
    ELSE IF board.remaining_cheese_count = 0 /\ board.initial_cheese_count > 0
    THEN TRUE
    ELSE t >= max_turns

\* score > total / 2.0 in f32, with the score counted in half points
check_game_over(pl, board, t) ==
    IF pl[1].score > board.initial_cheese_count
       \/ pl[2].score > board.initial_cheese_count
    THEN TRUE
    ELSE IF board.remaining_cheese_count = 0 /\ board.initial_cheese_count > 0
    THEN TRUE
    ELSE t >= max_turns

\* st: [player, cheese, turn]
process_turn(st, dirs) ==
    LET m == process_moves(st.player, dirs)
        c == process_cheese_collection(m.player, st.cheese)
        t == (st.turn + 1) % U16Mod
    IN [player |-> c.player, cheese |-> c.cheese, turn |-> t,
        result |-> [p1_moved |-> m.moved[1], p2_moved |-> m.moved[2],
                    game_over |-> check_game_over(c.player, c.cheese, t),
                    p1_score |-> c.player[1].score,
                    p2_score |-> c.player[2].score,
                    collected_cheese |-> c.collected]]

MoveUndo_new(st) ==
    [p1_pos |-> st.player[1].current_pos, p1_target |-> st.player[1].target_pos,
     p1_mud |-> st.player[1].mud_timer, p1_score |-> st.player[1].score,
     p1_misses |-> st.player[1].misses,
     p2_pos |-> st.player[2].current_pos, p2_target |-> st.player[2].target_pos,
     p2_mud |-> st.player[2].mud_timer, p2_score |-> st.player[2].score,
     p2_misses |-> st.player[2].misses,
     collected_cheese |-> <<>>,
     turn |-> st.turn]

\* unmake_move without the restoring of the collected cheese
unmake_move_keeps_cheese(st, undo) ==
    [player |-> [i \in Players |->
                   IF i = 1
                   THEN [current_pos |-> undo.p1_pos, target_pos |-> undo.p1_target,
                         mud_timer |-> undo.p1_mud, score |-> undo.p1_score,
                         misses |-> undo.p1_misses]
                   ELSE [current_pos |-> undo.p2_pos, target_pos |-> undo.p2_target,
                         mud_timer |-> undo.p2_mud, score |-> undo.p2_score,
                         misses |-> undo.p2_misses]],
     cheese |-> st.cheese,
     turn |-> undo.turn]

\* st: [player, cheese, turn]; undo: a MoveUndo
unmake_move(st, undo) ==
    [player |-> [i \in Players |->
                   IF i = 1
                   THEN [current_pos |-> undo.p1_pos, target_pos |-> undo.p1_target,
                         mud_timer |-> undo.p1_mud, score |-> undo.p1_score,
                         misses |-> undo.p1_misses]
                   ELSE [current_pos |-> undo.p2_pos, target_pos |-> undo.p2_target,
                         mud_timer |-> undo.p2_mud, score |-> undo.p2_score,
                         misses |-> undo.p2_misses]],
     cheese |-> restore_all(st.cheese, undo.collected_cheese),
     turn |-> undo.turn]

\* ------------------------------------------------------------ construction
c00 == Coordinates(0, 0)
c10 == Coordinates(1, 0)
c01 == Coordinates(0, 1)
cTop == Coordinates(Width - 1, Height - 1)

NoWalls == [c \in {} |-> {}]
\* one wall, between (0,1) and the cell to its right, listed from both cells
WallMaps == {(c01 :> {apply_to(Right, c01)}) @@ (apply_to(Right, c01) :> {c01})}

NoMud == [e \in {} |-> 0]
\* mud on the edge above player 1's corner and on the edge below player 2's,
\* each stored under one key as the tests do; a cost of 1 is an invalid map
\* that the constructor accepts all the same
MudMaps ==
    {(<<c00, c01>> :> 1)}
    \cup {(<<c00, c01>> :> k) @@ (<<cTop, apply_to(Down, cTop)>> :> 2) : k \in 2 .. MaxMud}

CheeseLists == {<<>>, <<c10, c01>>, <<c00, c01, c10>>}

MaxTurnsChoices == {ShortMaxTurns}

GameState_new(walls, mt) ==
    [move_table |-> MoveTable_new(Width, Height, walls),
     player |-> [i \in Players |-> IF i = 1 THEN PlayerState(c00) ELSE PlayerState(cTop)],
     mud |-> NoMud,
     cheese |-> CheeseBoard_new,
     turn |-> 0,
     max_turns |-> mt]

new_with_config(walls, m, cheese_positions, mt) ==
    LET g == GameState_new(walls, mt) IN
    [g EXCEPT !.mud = m, !.cheese = place_all(g.cheese, cheese_positions)]

\* ------------------------------------------------------------------ history
Current == [player |-> player, cheese |-> cheese, turn |-> turn]
Snapshot == [player |-> player, cheese |-> cheese, turn |-> turn, entry |-> entry]

NoResult == [p1_moved |-> FALSE, p2_moved |-> FALSE, game_over |-> FALSE,
             p1_score |-> 0, p2_score |-> 0, collected_cheese |-> <<>>]

\* what the direction asks of player p, whatever its mud state
intent_of(p, d) ==
    IF d = Stay THEN "stay"
    ELSE IF is_move_valid(move_table, p.current_pos, d) THEN "legal"
    ELSE "blocked"

NoIntent == <<"stay", "stay">>

\* the mud edge player i is on after a turn given dirs from st
next_entry(st, e, i, dirs) ==
    LET p == st.player[i]
        cm == compute_player_move(p, dirs[i])
        k == mud_get(p.current_pos, cm.pos)
    IN IF cm.moved /\ k >= 2
       THEN [cost |-> k, from |-> p.current_pos, to |-> cm.pos, elapsed |-> 0]
       ELSE IF e[i].cost > 0 /\ e[i].elapsed < e[i].cost
       THEN [e[i] EXCEPT !.elapsed = @ + 1]
       ELSE NoEntry

\* ------------------------------------------------------------------- state
Init ==
    \E w \in WallMaps, m \in MudMaps, cs \in CheeseLists, mt \in MaxTurnsChoices :
        LET g == new_with_config(w, m, cs, mt) IN
        /\ wall_map = w
        /\ move_table = g.move_table
        /\ mud = g.mud
        /\ max_turns = g.max_turns
        /\ player = g.player
        /\ cheese = g.cheese
        /\ turn = g.turn
        /\ undos = <<>>
        /\ entry = [i \in Players |-> NoEntry]
        /\ last = [op |-> "new", result |-> NoResult, intent |-> NoIntent, restored |-> 0]
        /\ PartsIdle

\* the caller plays a turn for good and drops the undo records it holds
ProcessTurn ==
    /\ turn < TurnCap
    /\ \E d1 \in Direction, d2 \in Direction :
        \E r \in {process_turn(Current, <<d1, d2>>)} :
        /\ player' = r.player
        /\ cheese' = r.cheese
        /\ turn' = r.turn
        /\ entry' = [i \in Players |-> next_entry(Current, entry, i, <<d1, d2>>)]
        /\ undos' = <<>>
        /\ last' = [op |-> "process_turn", result |-> r.result,
                    intent |-> <<intent_of(player[1], d1), intent_of(player[2], d2)>>,
                    restored |-> 0]
    /\ UNCHANGED <<wall_map, move_table, mud, max_turns>>
    /\ UNCHANGED part_vars

MakeMove ==
    /\ turn < TurnCap
    /\ Len(undos) < MaxUndo
    /\ \E d1 \in Direction, d2 \in Direction :
        \E undo \in {MoveUndo_new(Current)}, r \in {process_turn(Current, <<d1, d2>>)} :
        /\ player' = r.player
        /\ cheese' = r.cheese
        /\ turn' = r.turn
        /\ entry' = [i \in Players |-> next_entry(Current, entry, i, <<d1, d2>>)]
        /\ undos' = Append(undos,
                           [undo |-> [undo EXCEPT !.collected_cheese =
                                                      r.result.collected_cheese],
                            before |-> Snapshot])
        /\ last' = [op |-> "make_move", result |-> r.result,
                    intent |-> <<intent_of(player[1], d1), intent_of(player[2], d2)>>,
                    restored |-> 0]
    /\ UNCHANGED <<wall_map, move_table, mud, max_turns>>
    /\ UNCHANGED part_vars

\* the caller hands back the undo record it received last (LIFO)
UnmakeMove ==
    /\ undos # <<>>
    /\ LET top == undos[Len(undos)]
           r == unmake_move(Current, top.undo)
       IN
        /\ player' = r.player
        /\ cheese' = r.cheese
        /\ turn' = r.turn
        /\ entry' = top.before.entry
        /\ undos' = SubSeq(undos, 1, Len(undos) - 1)
        /\ last' = [op |-> "unmake_move", result |-> NoResult, intent |-> NoIntent,
                    restored |-> Len(top.undo.collected_cheese)]
    /\ UNCHANGED <<wall_map, move_table, mud, max_turns>>
    /\ UNCHANGED part_vars

Next == ProcessTurn \/ MakeMove \/ UnmakeMove

Spec == Init /\ [][Next]_vars

\* a game played with process_turn alone
SpecTurn == Init /\ [][ProcessTurn]_vars

\* the caller goes on calling process_turn(Stay, Stay) for as long as it
\* likes, past the end of the game: process_turn has no guard. The build
\* with overflow checks panics in the call that overflows a u16 counter (no
\* step here); the build without them wraps, as process_turn has it.
ProcessTurnStay ==
    /\ \E r \in {process_turn(Current, <<Stay, Stay>>)} :
        /\ player' = r.player
        /\ cheese' = r.cheese
        /\ turn' = r.turn
        /\ entry' = [i \in Players |-> next_entry(Current, entry, i, <<Stay, Stay>>)]
        /\ undos' = <<>>
        /\ last' = [op |-> "process_turn", result |-> r.result,
                    intent |-> NoIntent, restored |-> 0]
    /\ UNCHANGED <<wall_map, move_table, mud, max_turns>>
    /\ UNCHANGED part_vars

SpecLong == Init /\ [][ProcessTurnStay]_vars

\* --------------------------------------------- the move table on its own
\* MoveTable::new applied to the wall maps of at most MaxListed listings,
\* each listing naming a neighbour from one cell only
MoveDirections == {Up, Right, Down, Left}
BoardCells == (0 .. BoardWidth - 1) \X (0 .. BoardHeight - 1)

ListedPairs(w) == {<<a, b>> \in BoardCells \X BoardCells : a \in DOMAIN w /\ b \in w[a]}

\* walls.entry(a).or_default().push(b)
list_wall(w, a, b) ==
    IF a \in DOMAIN w THEN [w EXCEPT ![a] = @ \cup {b}] ELSE w @@ (a :> {b})

BoardInit ==
    LET g == GameState_new(NoWalls, ShortMaxTurns) IN
    /\ wall_map = NoWalls
    /\ move_table = MoveTable_new(BoardWidth, BoardHeight, NoWalls)
    /\ mud = g.mud
    /\ max_turns = g.max_turns
    /\ player = g.player
    /\ cheese = g.cheese
    /\ turn = g.turn
    /\ undos = <<>>
    /\ entry = [i \in Players |-> NoEntry]
    /\ last = [op |-> "new", result |-> NoResult, intent |-> NoIntent, restored |-> 0]
    /\ PartsIdle

\* a table is built for the wall map with one more listing
MoveTableNew ==
    /\ Cardinality(ListedPairs(wall_map)) < MaxListed
    /\ \E a \in BoardCells, d \in MoveDirections :
        LET b == apply_to(d, a) IN
        /\ b \in BoardCells
        /\ b # a
        /\ <<a, b>> \notin ListedPairs(wall_map)
        /\ wall_map' = list_wall(wall_map, a, b)
        /\ move_table' = MoveTable_new(BoardWidth, BoardHeight, wall_map')
    /\ UNCHANGED <<mud, max_turns, player, cheese, turn, undos, entry, last>>
    /\ UNCHANGED part_vars

SpecBoard == BoardInit /\ [][MoveTableNew]_vars

\* ------------------------------------------- the cheese board on its own
\* place_cheese, take_cheese and restore_cheese called in any order on a
\* board that starts empty; last holds the call and the value it returned
CheeseInit ==
    LET g == GameState_new(NoWalls, ShortMaxTurns) IN
    /\ wall_map = NoWalls
    /\ move_table = g.move_table
    /\ mud = g.mud
    /\ max_turns = g.max_turns
    /\ player = g.player
    /\ cheese = g.cheese
    /\ turn = g.turn
    /\ undos = <<>>
    /\ entry = [i \in Players |-> NoEntry]
    /\ last = [op |-> "new", pos |-> c00, ok |-> TRUE]
    /\ PartsIdle

PlaceCheese ==
    /\ cheese.initial_cheese_count < MaxPlaced
    /\ \E pos \in Cells : \E r \in {place_cheese(cheese, pos)} :
        /\ cheese' = r.board
        /\ last' = [op |-> "place_cheese", pos |-> pos, ok |-> r.ok]
    /\ UNCHANGED <<wall_map, move_table, mud, max_turns, player, turn, undos, entry>>
    /\ UNCHANGED part_vars

TakeCheese ==
    /\ \E pos \in Cells : \E r \in {take_cheese(cheese, pos)} :
        /\ cheese' = r.board
        /\ last' = [op |-> "take_cheese", pos |-> pos, ok |-> r.ok]
    /\ UNCHANGED <<wall_map, move_table, mud, max_turns, player, turn, undos, entry>>
    /\ UNCHANGED part_vars

RestoreCheese ==
    /\ \E pos \in Cells : \E r \in {restore_cheese(cheese, pos)} :
        /\ cheese' = r.board
        /\ last' = [op |-> "restore_cheese", pos |-> pos, ok |-> r.ok]
    /\ UNCHANGED <<wall_map, move_table, mud, max_turns, player, turn, undos, entry>>
    /\ UNCHANGED part_vars

CheeseNext == PlaceCheese \/ TakeCheese \/ RestoreCheese

SpecCheese == CheeseInit /\ [][CheeseNext]_vars

\* ------------------------------------------------ the mud map on its own
\* the derived Ord of Coordinates: by x, then by y
Coordinates_lt(a, b) == a[1] < b[1] \/ (a[1] = b[1] /\ a[2] < b[2])

MudMap_new == <<>>

\* MudMap_insert storing the pair in the order given only
MudMap_insert_one_way(m, pos1, pos2, value) ==
    [k \in DOMAIN m \cup {<<pos1, pos2>>} |->
        IF k = <<pos1, pos2>> THEN value ELSE m[k]]

MudMap_insert(m, pos1, pos2, value) ==
    [k \in DOMAIN m \cup {<<pos1, pos2>>, <<pos2, pos1>>} |->
        IF k \in {<<pos1, pos2>>, <<pos2, pos1>>} THEN value ELSE m[k]]

\* the items iter() yields: the entries whose key has pos1 < pos2
MudMap_iter(m) ==
    {<<k, m[k]>> : k \in {e \in DOMAIN m : Coordinates_lt(e[1], e[2])}}

MudMap_len(m) == Cardinality(DOMAIN m) \div 2

Adjacent(a, b) ==
    \/ (a[1] = b[1] /\ (a[2] = b[2] + 1 \/ b[2] = a[2] + 1))
    \/ (a[2] = b[2] /\ (a[1] = b[1] + 1 \/ b[1] = a[1] + 1))

\* ghost.latest: the value of the latest insert on each unordered pair;
\* ghost.call: the arguments of the latest insert
MudInit ==
    LET g == GameState_new(NoWalls, ShortMaxTurns) IN
    /\ wall_map = NoWalls
    /\ move_table = g.move_table
    /\ mud = g.mud
    /\ max_turns = g.max_turns
    /\ player = g.player
    /\ cheese = g.cheese
    /\ turn = g.turn
    /\ undos = <<>>
    /\ entry = [i \in Players |-> NoEntry]
    /\ last = [op |-> "new", result |-> NoResult, intent |-> NoIntent, restored |-> 0]
    /\ mud_map = MudMap_new
    /\ runs = <<>>
    /\ cheese_gen = NoCall
    /\ ghost = [latest |-> <<>>, call |-> <<>>]
    /\ observation_handler = NoHandler

MudMapInsert ==
    /\ \E a \in Cells, b \in Cells, v \in 1 .. MaxMud :
        /\ Adjacent(a, b)
        /\ (MudMap_len(mud_map) < MaxInserted \/ {a, b} \in DOMAIN ghost.latest)
        /\ mud_map' = MudMap_insert(mud_map, a, b, v)
        /\ ghost' = [latest |-> [e \in DOMAIN ghost.latest \cup {{a, b}} |->
                                    IF e = {a, b} THEN v ELSE ghost.latest[e]],
                     call |-> <<a, b, v>>]
    /\ UNCHANGED <<game_vars, runs, cheese_gen, observation_handler>>

SpecMud == MudInit /\ [][MudMapInsert]_vars

\* ------------------------------------------------------ maze_generation.rs
\* A run of MazeGenerator.generate. The seeded random numbers a step uses are
\* the draws the step is given: 0 for a passage test that fails, 1 for a
\* passage without mud, 2 .. MaxMud for a passage with that mud cost.
\* connections is the set of the (cell, neighbour) pairs of the lists.
\* the boards of the generator runs: at least two cells wide and high
MazeSizes == {d \in (2 .. MazeMaxCells) \X (2 .. MazeMaxCells) : d[1] * d[2] <= MazeMaxCells}
MazeCells(g) == (0 .. g.width - 1) \X (0 .. g.height - 1)
PassDraws == 0 .. MaxMud
MudDraws == 1 .. MaxMud
Picks == 0 .. 3

\* the place of a cell in the scans "for x in 0..width, for y in 0..height"
scan_index(g, pos) == pos[1] * g.height + pos[2]
scan_cell(g, idx) == <<idx \div g.height, idx % g.height>>

get_symmetric(width, height, pos) == <<width - 1 - pos[1], height - 1 - pos[2]>>
maze_symmetric(g, pos) == get_symmetric(g.width, g.height, pos)

\* the generator with its configuration, its position in generate (pc,
\* cursor), the returned walls, and for the record whether
\* ensure_full_connectivity had to open a passage (joined)
MazeGenerator_new(width, height, symmetry, connected) ==
    [width |-> width, height |-> height, symmetry |-> symmetry,
     connected |-> connected, pc |-> "layout", cursor |-> 0,
     not_considered |-> (0 .. width - 1) \X (0 .. height - 1),
     connections |-> {}, mud |-> MudMap_new, walls |-> NoWalls,
     joined |-> FALSE]

has_connection(g, from, to) == <<from, to>> \in g.connections

has_any_connection(g, pos) == \E e \in g.connections : e[1] = pos

is_border_cell(g, pos) ==
    pos[1] = 0 \/ pos[2] = 0 \/ pos[1] = g.width - 1 \/ pos[2] = g.height - 1

\* the neighbours in the order Up, Right, Down, Left
get_valid_neighbors(g, pos) ==
    LET all == <<<<pos[1], pos[2] + 1>>, <<pos[1] + 1, pos[2]>>,
                 <<pos[1], pos[2] - 1>>, <<pos[1] - 1, pos[2]>>>>
    IN SelectSeq(all, LAMBDA n : n \in MazeCells(g))

\* connections.entry(from).push(to), entry(to).push(from), and the mud of
\* the drawn value on the pair
connect_pair(g, from, to, mud_value) ==
    [g EXCEPT !.connections = @ \cup {<<from, to>>, <<to, from>>},
              !.mud = IF mud_value > 1
                      THEN MudMap_insert(MudMap_insert(@, from, to, mud_value),
                                         to, from, mud_value)
                      ELSE @]

\* a passage of the initial layout or of connect_region, with its mirror
\* image in a symmetric maze
link(g, from, to, mud_value) ==
    LET a == connect_pair(g, from, to, mud_value) IN
    IF g.symmetry
    THEN connect_pair(a, maze_symmetric(g, from), maze_symmetric(g, to), mud_value)
    ELSE a

\* add_passage: the connection, and mud if the draw gave some; in a symmetric
\* maze the mud is also put on the mirror image of the pair
add_passage_one_side(g, from, to, mud_value) == connect_pair(g, from, to, mud_value)

add_passage(g, from, to, mud_value) ==
    LET a == connect_pair(g, from, to, mud_value) IN
    IF g.symmetry /\ mud_value > 1
    THEN [a EXCEPT !.mud = MudMap_insert(MudMap_insert(@, maze_symmetric(g, from),
                                                       maze_symmetric(g, to), mud_value),
                                         maze_symmetric(g, to), maze_symmetric(g, from),
                                         mud_value)]
    ELSE a

\* one cell of generate_initial_layout, with the draws for its edge to the
\* right (dh) and its edge upwards (dv)
layout_cell(g, dh, dv) ==
    LET current == scan_cell(g, g.cursor)
        considered == ~g.symmetry \/ current \in g.not_considered
        a == IF considered /\ current[1] + 1 < g.width /\ dh >= 1
             THEN link(g, current, <<current[1] + 1, current[2]>>, dh)
             ELSE g
        b == IF considered /\ current[2] + 1 < g.height /\ dv >= 1
             THEN link(a, current, <<current[1], current[2] + 1>>, dv)
             ELSE a
        c == IF considered /\ g.symmetry
             THEN [b EXCEPT !.not_considered = @ \ {current, maze_symmetric(g, current)}]
             ELSE b
    IN IF g.cursor + 1 < g.width * g.height
       THEN [c EXCEPT !.cursor = g.cursor + 1]
       ELSE [c EXCEPT !.cursor = 0,
                      !.pc = IF g.connected THEN "connect" ELSE "border"]

reach_any_connected(connections, found) ==
    found \cup {e[1] : e \in connections}

\* the cells the depth-first search finds from the cells of found
RECURSIVE reach(_, _)
reach(connections, found) ==
    LET grow(cells) == cells \cup {e[2] : e \in {c \in connections : c[1] \in cells}}
        closure(cells, more) == IF more = cells THEN cells ELSE reach(connections, more)
    IN CHOOSE all \in UNION {{closure(cells, more) : more \in {grow(cells)}} :
                                cells \in {found}} : TRUE

\* the first cell of a set in scan order
first_cell(g, cells) ==
    CHOOSE p \in cells : \A q \in cells : scan_index(g, p) <= scan_index(g, q)

\* connect_region as ensure_connectivity calls it: possible_border is
\* overwritten by new_possible_border after the push, so it never holds
\* another cell than (0, 0); every pick and mud draw is an outcome
RECURSIVE connect_region(_, _)
connect_region(g, connected) ==
    LET start == <<0, 0>>
        border == {n \in MazeCells(g) :
                      Adjacent(start, n) /\ ~has_connection(g, start, n)
                      /\ n \notin connected}
    IN IF border = {} THEN {g}
       ELSE UNION {connect_region(link(g, start, to, mv), connected \cup {to}) :
                      to \in border, mv \in MudDraws}

ensure_connectivity(g) == connect_region(g, {<<0, 0>>})

\* a round of the loop that opens no passage
ensure_full_connectivity_idle(g, m1, m2) ==
    IF reach(g.connections, {<<0, 0>>}) = MazeCells(g)
    THEN {[g EXCEPT !.pc = "border"]}
    ELSE {[g EXCEPT !.joined = TRUE]}

\* one round of the loop of ensure_full_connectivity with the draws m1 and
\* m2 of its add_passage calls. The two components are hash sets: the pair
\* that joins them is the adjacent pair their iteration meets first, which
\* can be any adjacent pair, so every one of them is an outcome.
ensure_full_connectivity(g, m1, m2) ==
    LET component1 == reach(g.connections, {<<0, 0>>})
        rest == MazeCells(g) \ component1
    IN IF rest = {} THEN {[g EXCEPT !.pc = "border"]}
       ELSE LET component2 == reach(g.connections, {first_cell(g, rest)})
                pairs == {e \in component1 \X component2 : Adjacent(e[1], e[2])}
            IN IF pairs # {}
               THEN {LET a == add_passage([g EXCEPT !.joined = TRUE], e[1], e[2], m1) IN
                     IF g.symmetry
                     THEN add_passage(a, maze_symmetric(g, e[1]), maze_symmetric(g, e[2]), m2)
                     ELSE a : e \in pairs}
               ELSE ensure_connectivity(g)

validate_output(g) ==
    /\ \A it \in MudMap_iter(g.mud) : has_connection(g, it[1][1], it[1][2])
    /\ \A e \in g.connections : has_connection(g, e[2], e[1])
    /\ g.connected =>
          Cardinality(reach(g.connections, {<<0, 0>>})) = g.width * g.height
    /\ \A e \in g.connections : e[1] \in MazeCells(g) /\ e[2] \in MazeCells(g)

connections_to_walls_everywhere(g) ==
    [c \in MazeCells(g) |-> {n \in MazeCells(g) : Adjacent(c, n)}]

\* for each cell the adjacent cells on the board it has no connection to
connections_to_walls(g) ==
    LET blocked(c) == {n \in MazeCells(g) : Adjacent(c, n) /\ ~has_connection(g, c, n)}
    IN [c \in {p \in MazeCells(g) : blocked(p) # {}} |-> blocked(c)]

\* the end of generate: the validation, then the walls
generate_end(g) ==
    IF validate_output(g)
    THEN [g EXCEPT !.pc = "done", !.walls = connections_to_walls(g)]
    ELSE [g EXCEPT !.pc = "panic"]

\* add_border_connections up to and including the next border cell without
\* a connection, with the draw of its neighbour (pick) and the draws of the
\* add_passage calls; generate ends when there is no such cell left
add_border_connections(g, pick, m1, m2) ==
    LET lonely == {p \in MazeCells(g) : is_border_cell(g, p) /\ ~has_any_connection(g, p)}
    IN IF lonely = {} THEN generate_end(g)
       ELSE LET current == first_cell(g, lonely)
                neighbors == get_valid_neighbors(g, current)
                neighbor == neighbors[(pick % Len(neighbors)) + 1]
                a == add_passage(g, current, neighbor, m1)
            IN IF g.symmetry
               THEN add_passage(a, maze_symmetric(g, current), maze_symmetric(g, neighbor), m2)
               ELSE a

\* The generator runs of `runs` are calls of generate with the same
\* configuration and the same seed: they take their steps together, every
\* step with the same draws, and differ only where the code leaves the
\* outcome to the iteration order of a hash set.
fresh_game_vars ==
    LET g == GameState_new(NoWalls, ShortMaxTurns) IN
    /\ wall_map = NoWalls
    /\ move_table = g.move_table
    /\ mud = g.mud
    /\ max_turns = g.max_turns
    /\ player = g.player
    /\ cheese = g.cheese
    /\ turn = g.turn
    /\ undos = <<>>
    /\ entry = [i \in Players |-> NoEntry]
    /\ last = [op |-> "new", result |-> NoResult, intent |-> NoIntent, restored |-> 0]

\* generate_initial_layout takes no draw for an edge that leaves the board
\* (axis 1: to the right, axis 2: upwards) or starts at a cell the symmetric
\* scan has already considered; add_passage is called a second time, with a
\* second draw, in symmetric mode only
no_draw(g, axis) ==
    LET current == scan_cell(g, g.cursor) IN
    \/ g.symmetry /\ current \notin g.not_considered
    \/ axis = 1 /\ current[1] + 1 >= g.width
    \/ axis = 2 /\ current[2] + 1 >= g.height

all_at(pc) == runs # <<>> /\ \A i \in DOMAIN runs : runs[i].pc = pc

MazeInit ==
    /\ fresh_game_vars
    /\ mud_map = <<>>
    /\ cheese_gen = NoCall
    /\ ghost = <<>>
    /\ observation_handler = NoHandler
    /\ \E d \in MazeSizes, symmetry \in BOOLEAN, connected \in BOOLEAN :
          runs = <<MazeGenerator_new(d[1], d[2], symmetry, connected)>>

SeedInit ==
    /\ fresh_game_vars
    /\ mud_map = <<>>
    /\ cheese_gen = NoCall
    /\ ghost = <<>>
    /\ observation_handler = NoHandler
    /\ \E d \in MazeSizes, symmetry \in BOOLEAN, connected \in BOOLEAN :
          runs = <<MazeGenerator_new(d[1], d[2], symmetry, connected),
                   MazeGenerator_new(d[1], d[2], symmetry, connected)>>

MazeLayout ==
    /\ all_at("layout")
    /\ \E dh \in PassDraws, dv \in PassDraws :
          /\ no_draw(runs[1], 1) => dh = 0
          /\ no_draw(runs[1], 2) => dv = 0
          /\ runs' = [i \in DOMAIN runs |-> layout_cell(runs[i], dh, dv)]
    /\ UNCHANGED <<game_vars, mud_map, cheese_gen, ghost, observation_handler>>

MazeConnect ==
    /\ all_at("connect")
    /\ \E m1 \in MudDraws, m2 \in MudDraws :
          /\ ~runs[1].symmetry => m2 = 1
          /\ runs' \in [DOMAIN runs ->
                          UNION {ensure_full_connectivity(runs[i], m1, m2) :
                                    i \in DOMAIN runs}]
          /\ \A i \in DOMAIN runs :
                runs'[i] \in ensure_full_connectivity(runs[i], m1, m2)
    /\ UNCHANGED <<game_vars, mud_map, cheese_gen, ghost, observation_handler>>

MazeBorder ==
    /\ all_at("border")
    /\ \E pick \in Picks, m1 \in MudDraws, m2 \in MudDraws :
          /\ ~runs[1].symmetry => m2 = 1
          /\ runs' = [i \in DOMAIN runs |-> add_border_connections(runs[i], pick, m1, m2)]
    /\ UNCHANGED <<game_vars, mud_map, cheese_gen, ghost, observation_handler>>

MazeNext == MazeLayout \/ MazeConnect \/ MazeBorder

SpecMaze == MazeInit /\ [][MazeNext]_vars

SpecSeed == SeedInit /\ [][MazeNext]_vars

\* ensure_full_connectivity is a loop of a sequential function: a round
\* that can be taken is taken. The runs are those that ask for a connected
\* maze, the others skip the loop.
MazeRunInit == MazeInit /\ runs[1].connected
SpecMazeRun == MazeRunInit /\ [][MazeNext]_vars /\ WF_vars(MazeConnect)

\* ------------------------------------------------ CheeseGenerator::generate
\* (maze_generation.rs)
\* A call of generate is the record of its configuration (width, height,
\* symmetry, count), its arguments (p1, p2), its locals (pieces, remaining,
\* candidates) and its position: "start", "place" (the while loop),
\* "returned", or "panic" with the message.
CheeseSizes == {d \in (2 .. CheeseMaxCells) \X (2 .. CheeseMaxCells) : d[1] * d[2] <= CheeseMaxCells}

CheeseCells(c) == (0 .. c.width - 1) \X (0 .. c.height - 1)

CheeseGenerator_new(width, height, symmetry, count, p1, p2) ==
    [pc |-> "start", message |-> "", width |-> width, height |-> height,
     symmetry |-> symmetry, count |-> count, p1 |-> p1, p2 |-> p2,
     pieces |-> <<>>, remaining |-> count, candidates |-> <<>>]

cheese_symmetric(c, pos) == get_symmetric(c.width, c.height, pos)

\* the candidate scan from the cell of scan index idx on: x outermost
RECURSIVE scan_candidates(_, _, _, _)
scan_candidates(c, idx, candidates, considered) ==
    IF idx >= c.width * c.height THEN candidates
    ELSE LET pos == <<idx \div c.height, idx % c.height>>
             taken == /\ (~c.symmetry \/ pos \notin considered)
                      /\ pos # c.p1
                      /\ pos # c.p2
                      /\ pos # cheese_symmetric(c, pos)
         IN scan_candidates(c, idx + 1,
                IF taken THEN Append(candidates, pos) ELSE candidates,
                IF taken /\ c.symmetry
                THEN considered \cup {pos, cheese_symmetric(c, pos)}
                ELSE considered)

\* generate up to the while loop: the centre piece of an odd symmetric
\* count, or the panic on even dimensions, then the candidates
generate_begin(c) ==
    IF c.symmetry /\ c.remaining % 2 = 1
    THEN IF c.width % 2 = 0 \/ c.height % 2 = 0
         THEN [c EXCEPT !.pc = "panic", !.message = "Cannot place odd number of cheese"]
         ELSE LET center == <<c.width \div 2, c.height \div 2>>
                  a == IF center # c.p1 /\ center # c.p2
                       THEN [c EXCEPT !.pieces = Append(@, center),
                                      !.remaining = @ - 1]
                       ELSE c
              IN [a EXCEPT !.pc = "place",
                           !.candidates = scan_candidates(c, 0, <<>>, {})]
    ELSE [c EXCEPT !.pc = "place", !.candidates = scan_candidates(c, 0, <<>>, {})]

\* Vec::swap_remove at the 0-based index idx: the last element takes the place
swap_remove(v, idx) ==
    LET moved == IF idx + 1 = Len(v) THEN v ELSE [v EXCEPT ![idx + 1] = v[Len(v)]]
    IN SubSeq(moved, 1, Len(v) - 1)

retain_other(v, pos) == SelectSeq(v, LAMBDA p : p # pos)

generate_place_unmirrored(c, idx, wraps) ==
    [c EXCEPT !.pieces = Append(@, c.candidates[idx + 1]),
              !.candidates = swap_remove(c.candidates, idx),
              !.remaining = IF @ >= 2 THEN @ - 2 ELSE 0]

generate_place_saturating(c, idx, wraps) ==
    LET chosen == c.candidates[idx + 1]
        symmetric == cheese_symmetric(c, chosen)
    IN [c EXCEPT !.pieces = IF c.symmetry THEN Append(Append(@, chosen), symmetric)
                            ELSE Append(@, chosen),
                 !.candidates = retain_other(swap_remove(c.candidates, idx), symmetric),
                 !.remaining = IF c.symmetry /\ @ >= 2 THEN @ - 2
                               ELSE IF c.symmetry THEN 0 ELSE @ - 1]

\* one round of the while loop with the drawn index. `remaining -= 2` on
\* remaining = 1 overflows the u16: the build with overflow checks panics,
\* the build without them wraps (wraps = TRUE).
generate_place(c, idx, wraps) ==
    LET chosen == c.candidates[idx + 1]
        rest == swap_remove(c.candidates, idx)
    IN IF c.symmetry
       THEN LET symmetric == cheese_symmetric(c, chosen)
                a == [c EXCEPT !.pieces = Append(Append(@, chosen), symmetric),
                               !.candidates = retain_other(rest, symmetric)]
            IN IF c.remaining >= 2 THEN [a EXCEPT !.remaining = @ - 2]
               ELSE IF wraps THEN [a EXCEPT !.remaining = (@ - 2) % U16Mod]
               ELSE [a EXCEPT !.pc = "panic",
                              !.message = "attempt to subtract with overflow"]
       ELSE [c EXCEPT !.pieces = Append(@, chosen), !.candidates = rest,
                      !.remaining = @ - 1]

generate_finish_unchecked(c) == [c EXCEPT !.pc = "returned"]

\* the assertion after the loop, and the return
generate_finish(c) ==
    IF c.remaining = 0 THEN [c EXCEPT !.pc = "returned"]
    ELSE [c EXCEPT !.pc = "panic", !.message = "Too many pieces of cheese"]

CheeseGenInit ==
    /\ fresh_game_vars
    /\ mud_map = <<>>
    /\ runs = <<>>
    /\ ghost = <<>>
    /\ observation_handler = NoHandler
    /\ \E d \in CheeseSizes, symmetry \in BOOLEAN :
          \E count \in 0 .. d[1] * d[2] :
             \E p1 \in (0 .. d[1] - 1) \X (0 .. d[2] - 1),
                p2 \in (0 .. d[1] - 1) \X (0 .. d[2] - 1) :
                cheese_gen = CheeseGenerator_new(d[1], d[2], symmetry, count, p1, p2)

CheeseGenBegin ==
    /\ cheese_gen.pc = "start"
    /\ cheese_gen' = generate_begin(cheese_gen)
    /\ UNCHANGED <<game_vars, mud_map, runs, ghost, observation_handler>>

looping(c) == c.remaining > 0 /\ c.candidates # <<>>

CheeseGenPlace ==
    /\ cheese_gen.pc = "place"
    /\ looping(cheese_gen)
    /\ \E idx \in 0 .. Len(cheese_gen.candidates) - 1, wraps \in BOOLEAN :
          /\ idx < MaxPick
          /\ wraps => (cheese_gen.symmetry /\ cheese_gen.remaining < 2)
          /\ cheese_gen' = generate_place(cheese_gen, idx, wraps)
    /\ UNCHANGED <<game_vars, mud_map, runs, ghost, observation_handler>>

CheeseGenFinish ==
    /\ cheese_gen.pc = "place"
    /\ ~looping(cheese_gen)
    /\ cheese_gen' = generate_finish(cheese_gen)
    /\ UNCHANGED <<game_vars, mud_map, runs, ghost, observation_handler>>

CheeseGenNext == CheeseGenBegin \/ CheeseGenPlace \/ CheeseGenFinish

SpecCheeseGen == CheeseGenInit /\ [][CheeseGenNext]_vars

\* ------------------------------------------- the constructor on its own
\* GameState::new_with_config called with any cheese position list of at
\* most MaxCheeseList cells, a cell may be listed more than once. The call
\* (its list and whether it has returned) is kept in ghost. The constructor
\* has no failing path: every call returns a game.
CheesePositionLists ==
    UNION {[1 .. n -> Cells] : n \in 0 .. MaxCheeseList}

NewInit ==
    /\ fresh_game_vars
    /\ mud_map = <<>>
    /\ runs = <<>>
    /\ cheese_gen = NoCall
    /\ \E cs \in CheesePositionLists :
          ghost = [pc |-> "call", cheese_positions |-> cs]
    /\ observation_handler = NoHandler

NewWithConfig ==
    /\ ghost.pc = "call"
    /\ LET g == new_with_config(wall_map, NoMud, ghost.cheese_positions, max_turns) IN
        /\ move_table' = g.move_table
        /\ mud' = g.mud
        /\ player' = g.player
        /\ cheese' = g.cheese
        /\ turn' = g.turn
    /\ ghost' = [ghost EXCEPT !.pc = "constructed"]
    /\ UNCHANGED <<wall_map, max_turns, undos, entry, last, mud_map, runs, cheese_gen,
                   observation_handler>>

SpecNew == NewInit /\ [][NewWithConfig]_vars

\* --------------------------------------------------------- observations.rs
\* mud_turns as i8: the eight bits of the u8 read as two's complement
as_i8(v) == IF 2 * v < U8Max THEN v ELSE v - (U8Max + 1)

\* CheeseBoard.get_all_cheese_positions: the cell of every bit that is set
get_all_cheese_positions(board) == {<<idx % Width, idx \div Width>> : idx \in board.bits}

\* MovementConstraints::new: matrix[x, y, dir], dir as usize being the
\* direction's number; the boundary is tested first, then the move table,
\* then the mud map (0 from MudMap_get stands for None: the zero is kept)
MovementConstraints_new(table, m) ==
    [e \in Cells \X MoveDirections |->
        LET pos == e[1]
            dir == e[2]
            is_invalid == CASE dir = Left  -> pos[1] = 0
                            [] dir = Right -> pos[1] >= Width - 1
                            [] dir = Down  -> pos[2] = 0
                            [] dir = Up    -> pos[2] >= Height - 1
            mud_turns == MudMap_get(m, pos, apply_to(dir, pos))
        IN IF is_invalid THEN -1
           ELSE IF ~is_move_valid(table, pos, dir) THEN -1
           ELSE IF mud_turns # 0 THEN as_i8(mud_turns)
           ELSE 0]

cheese_matrix_of(board) ==
    [pos \in Cells |-> IF pos \in get_all_cheese_positions(board) THEN 1 ELSE 0]

\* ObservationHandler::new(game), game a record with move_table, mud, cheese
ObservationHandler_new(game) ==
    [movement_constraints |-> MovementConstraints_new(game.move_table, game.mud),
     cheese_matrix |-> cheese_matrix_of(game.cheese)]

\* update_collected_cheese that clears nothing
update_collected_cheese_none(handler, collected) ==
    handler

update_collected_cheese(handler, collected) ==
    [handler EXCEPT !.cheese_matrix =
        [pos \in Cells |-> IF \E i \in DOMAIN collected : collected[i] = pos
                           THEN 0 ELSE handler.cheese_matrix[pos]]]

\* fill(0), then 1 at every cheese position of the game
refresh_cheese(handler, board) ==
    [handler EXCEPT !.cheese_matrix = cheese_matrix_of(board)]

\* ---------------------------------------------------------- bindings/game.rs
\* PyRat: a game wrapped with its observation handler. The game is the
\* GameState above with its mud held in a MudMap (both key orders stored);
\* validate_mud accepts the costs 2 .. 255.
PyMudCosts == (2 .. MaxMud) \cup {U8Max}
PyMudMaps == {MudMap_new} \cup {MudMap_insert(MudMap_new, c00, c01, k) : k \in PyMudCosts}
PyWallMaps == {NoWalls} \cup WallMaps
PyCheeseLists == CheeseLists \cup {<<c10>>, <<c01>>}

PyRat_set(g, w) ==
    /\ wall_map = w
    /\ move_table = g.move_table
    /\ mud = g.mud
    /\ max_turns = g.max_turns
    /\ player = g.player
    /\ cheese = g.cheese
    /\ turn = g.turn
    /\ undos = <<>>
    /\ entry = [i \in Players |-> NoEntry]
    /\ last = [op |-> "new", result |-> NoResult, intent |-> NoIntent, restored |-> 0]
    /\ mud_map = <<>>
    /\ runs = <<>>
    /\ cheese_gen = NoCall
    /\ ghost = <<>>
    /\ observation_handler = ObservationHandler_new(g)

PyRatInit ==
    \E w \in PyWallMaps, m \in PyMudMaps, cs \in PyCheeseLists, mt \in MaxTurnsChoices :
        PyRat_set(new_with_config(w, m, cs, mt), w)

\* step: process_turn, then update_collected_cheese on what the turn collected
PyRat_step ==
    /\ turn < TurnCap
    /\ \E d1 \in Direction, d2 \in Direction :
        \E r \in {process_turn(Current, <<d1, d2>>)} :
        /\ player' = r.player
        /\ cheese' = r.cheese
        /\ turn' = r.turn
        /\ entry' = [i \in Players |-> next_entry(Current, entry, i, <<d1, d2>>)]
        /\ undos' = <<>>
        /\ last' = [op |-> "step", result |-> r.result,
                    intent |-> <<intent_of(player[1], d1), intent_of(player[2], d2)>>,
                    restored |-> 0]
        /\ observation_handler' =
               update_collected_cheese(observation_handler, r.result.collected_cheese)
    /\ UNCHANGED <<wall_map, move_table, mud, max_turns, mud_map, runs, cheese_gen, ghost>>

\* make_move: the game's make_move and nothing else
PyRat_make_move ==
    /\ turn < TurnCap
    /\ Len(undos) < MaxUndo
    /\ \E d1 \in Direction, d2 \in Direction :
        \E undo \in {MoveUndo_new(Current)}, r \in {process_turn(Current, <<d1, d2>>)} :
        /\ player' = r.player
        /\ cheese' = r.cheese
        /\ turn' = r.turn
        /\ entry' = [i \in Players |-> next_entry(Current, entry, i, <<d1, d2>>)]
        /\ undos' = Append(undos,
                           [undo |-> [undo EXCEPT !.collected_cheese =
                                                      r.result.collected_cheese],
                            before |-> Snapshot])
        /\ last' = [op |-> "make_move", result |-> r.result,
                    intent |-> <<intent_of(player[1], d1), intent_of(player[2], d2)>>,
                    restored |-> 0]
    /\ UNCHANGED <<wall_map, move_table, mud, max_turns, mud_map, runs, cheese_gen, ghost,
                   observation_handler>>

\* unmake_move: the game's unmake_move, then refresh_cheese
PyRat_unmake_move ==
    /\ undos # <<>>
    /\ LET top == undos[Len(undos)]
           r == unmake_move(Current, top.undo)
       IN
        /\ player' = r.player
        /\ cheese' = r.cheese
        /\ turn' = r.turn
        /\ entry' = top.before.entry
        /\ undos' = SubSeq(undos, 1, Len(undos) - 1)
        /\ last' = [op |-> "unmake_move", result |-> NoResult, intent |-> NoIntent,
                    restored |-> Len(top.undo.collected_cheese)]
        /\ observation_handler' = refresh_cheese(observation_handler, r.cheese)
    /\ UNCHANGED <<wall_map, move_table, mud, max_turns, mud_map, runs, cheese_gen, ghost>>

PyRatNext == PyRat_step \/ PyRat_make_move \/ PyRat_unmake_move

SpecPyRat == PyRatInit /\ [][PyRatNext]_vars

\* reset: the game is replaced by a newly generated one with the same
\* number of cheeses (walls, mud and cheese cells as the seed has them),
\* then refresh_cheese; movement_constraints is not assigned
PyRat_reset ==
    /\ \E w \in PyWallMaps, m \in PyMudMaps, mt \in MaxTurnsChoices :
        \E cs \in {l \in PyCheeseLists : Len(l) = cheese.initial_cheese_count} :
        LET g == new_with_config(w, m, cs, mt) IN
        /\ wall_map' = w
        /\ move_table' = g.move_table
        /\ mud' = g.mud
        /\ max_turns' = g.max_turns
        /\ player' = g.player
        /\ cheese' = g.cheese
        /\ turn' = g.turn
        /\ undos' = <<>>
        /\ entry' = [i \in Players |-> NoEntry]
        /\ last' = [op |-> "reset", result |-> NoResult, intent |-> NoIntent,
                    restored |-> 0]
        /\ observation_handler' = refresh_cheese(observation_handler, g.cheese)
    /\ UNCHANGED <<mud_map, runs, cheese_gen, ghost>>

SpecReset == PyRatInit /\ [][PyRat_step \/ PyRat_reset]_vars

\* the handler on its own, driven as step drives it, with refresh_cheese
\* called whenever the caller likes
HandlerRefresh ==
    /\ observation_handler' = refresh_cheese(observation_handler, cheese)
    /\ last' = [op |-> "refresh_cheese", result |-> NoResult, intent |-> NoIntent,
                restored |-> 0]
    /\ UNCHANGED <<wall_map, move_table, mud, max_turns, player, cheese, turn, undos, entry,
                   mud_map, runs, cheese_gen, ghost>>

SpecObs == PyRatInit /\ [][PyRat_step \/ HandlerRefresh]_vars

\* ------------------------------------------------------------------ claims
TurnOps == {"process_turn", "make_move"}

\* the mud map is a valid one: every cost it stores is at least 2
ValidConfig == \A e \in DOMAIN mud : mud[e] >= 2

InBounds(pos) == pos[1] < Width /\ pos[2] < Height

\* C1: unmake_move, given the undo record of the latest make_move that is not
\* yet unmade, puts back every field of the state that make_move started
\* from: both players' current_pos, target_pos, mud_timer, score and misses,
\* the turn counter, the cheese cells and both cheese counters. Unmaking a
\* whole sequence in LIFO order therefore ends in the state it began in.
C1_RoundTrip ==
    [][last'.op = "unmake_move" =>
          /\ undos # <<>>
          /\ player' = undos[Len(undos)].before.player
          /\ cheese' = undos[Len(undos)].before.cheese
          /\ turn' = undos[Len(undos)].before.turn]_vars

\* two moves were made, the second one collected cheese and has been unmade
C1_Witness ==
    /\ last.op = "unmake_move"
    /\ last.restored > 0
    /\ Len(undos) = 1
    /\ turn = 1

\* C2: from a valid configuration, mud_timer = 0 iff current_pos = target_pos
C2_MudTimerIffAtTarget ==
    ValidConfig =>
        \A i \in Players :
            (player[i].mud_timer = 0) <=> (player[i].current_pos = player[i].target_pos)

C2_Witness ==
    /\ ValidConfig
    /\ last.op = "process_turn"
    /\ player[1].mud_timer > 0
    /\ player[1].current_pos # player[1].target_pos
    /\ player[2].mud_timer = 0
    /\ player[2].current_pos # cTop

\* C3: the turn counter never exceeds max_turns
C3_TurnWithinMax == 0 <= turn /\ turn <= max_turns

\* C4: each player's current_pos is in bounds
C4_InBounds == \A i \in Players : InBounds(player[i].current_pos)

\* on the first turn player 1 was sent off the board from its corner
C4_Witness ==
    /\ last.op = "process_turn"
    /\ turn = 1
    /\ last.intent[1] = "blocked"
    /\ player[1].current_pos = c00
    /\ player[1].misses = 1

\* C5: the game_over flag a turn returns is true iff, with the turn counter
\* already incremented, a score is above half of the initial cheese count, or
\* no cheese remains of a positive initial count, or turn >= max_turns
\* (scores are in half points: score > initial means score/2 > initial/2)
C5_GameOverIff ==
    last.op \in TurnOps =>
        (last.result.game_over <=>
            \/ player[1].score > cheese.initial_cheese_count
            \/ player[2].score > cheese.initial_cheese_count
            \/ (cheese.remaining_cheese_count = 0 /\ cheese.initial_cheese_count > 0)
            \/ turn >= max_turns)

\* a score of exactly half the initial cheese, and the game goes on
C5_Witness ==
    /\ last.op = "process_turn"
    /\ cheese.initial_cheese_count > 0
    /\ player[1].score = cheese.initial_cheese_count
    /\ ~last.result.game_over

\* after a turn step both players are out of mud on one cell
SharedCell == /\ player'[1].mud_timer = 0
              /\ player'[2].mud_timer = 0
              /\ player'[1].current_pos = player'[2].current_pos

\* C6: when both players end a turn out of mud on the same cell and that cell
\* held cheese, each score grows by exactly 0.5, exactly one cheese goes and
\* collected_cheese is that one cell
C6_SharedCheese ==
    [][(last'.op \in TurnOps /\ SharedCell /\ has_cheese(cheese, player'[1].current_pos)) =>
          /\ \A i \in Players : player'[i].score = player[i].score + 1
          /\ cheese'.remaining_cheese_count = cheese.remaining_cheese_count - 1
          /\ cheese'.bits = cheese.bits \ {to_index(player'[1].current_pos, Width)}
          /\ last'.result.collected_cheese = <<player'[1].current_pos>>]_vars

C6_Witness ==
    /\ ValidConfig
    /\ last.op = "process_turn"
    /\ player[1].mud_timer = 0 /\ player[2].mud_timer = 0
    /\ player[1].current_pos = player[2].current_pos
    /\ last.result.collected_cheese = <<player[1].current_pos>>
    /\ player[1].score = 1 /\ player[2].score = 1

\* C7: a player that is in mud when the movement phase of a turn ends keeps
\* its score in that turn
C7_NoCollectInMud ==
    [][last'.op \in TurnOps =>
          \A i \in Players :
              player'[i].mud_timer > 0 => player'[i].score = player[i].score]_vars

\* player 1 is in mud with cheese on the cell it stands on and on its target
C7_Witness ==
    /\ last.op = "process_turn"
    /\ player[1].mud_timer > 0
    /\ has_cheese(cheese, player[1].current_pos)
    /\ has_cheese(cheese, player[1].target_pos)

\* player i is out of mud after the step on a cell that held cheese before it
Takes(i) == player'[i].mud_timer = 0 /\ has_cheese(cheese, player'[i].current_pos)

TakenCells(i) == IF Takes(i) THEN <<player'[i].current_pos>> ELSE <<>>

\* C8: unless both players are out of mud on the same cell, each player that
\* is out of mud on a cheese cell takes it for exactly 1.0, nobody else gains,
\* and collected_cheese is the cells taken: at most two, never one cell twice
C8_IndividualCheese ==
    [][(last'.op \in TurnOps /\ ~SharedCell) =>
          LET got == last'.result.collected_cheese IN
          /\ \A i \in Players :
                player'[i].score = player[i].score + (IF Takes(i) THEN 2 ELSE 0)
          /\ got = TakenCells(1) \o TakenCells(2)
          /\ Len(got) <= 2
          /\ (Len(got) = 2 => got[1] # got[2])
          /\ cheese'.bits = cheese.bits \ {to_index(got[k], Width) : k \in 1 .. Len(got)}
          /\ cheese'.remaining_cheese_count = cheese.remaining_cheese_count - Len(got)]_vars

\* both players took a cheese each in one turn
C8_Witness ==
    /\ last.op = "process_turn"
    /\ Len(last.result.collected_cheese) = 2
    /\ player[1].score = 2 /\ player[2].score = 2

\* C9 as claimed: k - 1 turns after the turn that entered a mud edge of cost
\* k >= 2 the timer is 0 and the player is on the target cell
C9_ExpiresAfterCostMinusOne ==
    \A i \in Players :
        (entry[i].cost >= 2 /\ entry[i].elapsed = entry[i].cost - 1) =>
            (player[i].mud_timer = 0 /\ player[i].current_pos = entry[i].to)

\* C9 as the code has it: the turn that enters the edge sets the timer to k,
\* each following turn takes 1 off, so the player is still at the departure
\* cell with timer k - n after n < k following turns and is on the target
\* cell with timer 0 after exactly k
C9_ExpiresAfterCost ==
    \A i \in Players :
        entry[i].cost >= 2 =>
            /\ entry[i].elapsed < entry[i].cost =>
                  /\ player[i].mud_timer = entry[i].cost - entry[i].elapsed
                  /\ player[i].current_pos = entry[i].from
                  /\ player[i].target_pos = entry[i].to
            /\ entry[i].elapsed = entry[i].cost =>
                  /\ player[i].mud_timer = 0
                  /\ player[i].current_pos = entry[i].to

C9_Witness ==
    /\ last.op = "process_turn"
    /\ entry[1].cost >= 2
    /\ entry[1].elapsed = entry[1].cost
    /\ player[1].current_pos = entry[1].to

\* C10: a turn that a player starts in mud takes 1 off its timer, keeps its
\* target and moves it to the target exactly when the timer reaches 0,
\* whichever of the five directions was given; no new move starts
C10_DirectionIgnoredInMud ==
    [][last'.op \in TurnOps =>
          \A i \in Players :
              player[i].mud_timer > 0 =>
                  /\ player'[i].mud_timer = player[i].mud_timer - 1
                  /\ player'[i].target_pos = player[i].target_pos
                  /\ player'[i].current_pos =
                         IF player[i].mud_timer = 1 THEN player[i].target_pos
                         ELSE player[i].current_pos]_vars

\* player 1 left the mud on a turn whose direction was a legal move from the
\* cell it stood on
C10_Witness ==
    /\ last.op = "process_turn"
    /\ last.intent[1] = "legal"
    /\ entry[1].cost >= 2
    /\ entry[1].elapsed = entry[1].cost
    /\ player[1].mud_timer = 0
    /\ player[1].current_pos = entry[1].to
    /\ player[1].target_pos = entry[1].to

\* the turn step ran through: the move-table bytes it may read exist, no u16
\* counter wrapped round and the cheese count was not taken below 0
Completes ==
    /\ \A i \in Players :
          /\ to_index(player[i].current_pos, move_table.width) \div 2
                \in DOMAIN move_table.valid_moves
          /\ player'[i].misses >= player[i].misses
    /\ turn' = turn + 1
    /\ cheese'.remaining_cheese_count + Len(last'.result.collected_cheese)
          = cheese.remaining_cheese_count

C12_MissIffNotMoved ==
    [][last'.op \in TurnOps =>
          \A i \in Players :
              player'[i].misses =
                  player[i].misses
                  + (IF player'[i].current_pos = player[i].current_pos THEN 1 ELSE 0)]_vars

\* after two turns player 1 has moved once and player 2 never
C12_Witness ==
    /\ last.op = "process_turn"
    /\ turn = 2
    /\ player[1].misses = 1
    /\ player[1].current_pos # c00
    /\ player[2].misses = 2
    /\ player[2].current_pos = cTop
    /\ player[2].mud_timer = 0

\* C13 as claimed: a turn that a player starts with mud_timer > 0 leaves its
\* misses as it was, whatever direction was given (looked at in valid
\* configurations only)
C13_NoMissOnMudTick ==
    [][(ValidConfig /\ last'.op \in TurnOps) =>
          \A i \in Players :
              player[i].mud_timer > 0 => player'[i].misses = player[i].misses]_vars

\* C13 as the code has it: a turn that a player starts with mud_timer > 0
\* adds 1 to its misses when the player stays where it is (the timer was
\* above 1, or the player was already on its target cell) and leaves misses
\* as it was when the timer reaches 0 and moves the player to another cell,
\* whatever direction was given
C13_MissOnMudTickUnlessArrival ==
    [][last'.op \in TurnOps =>
          \A i \in Players :
              player[i].mud_timer > 0 =>
                  player'[i].misses =
                      player[i].misses
                      + (IF player[i].mud_timer > 1
                            \/ player[i].target_pos = player[i].current_pos
                         THEN 1 ELSE 0)]_vars

\* player 1 entered a mud edge on the first turn and was given a legal
\* direction on the second, which is a tick that keeps it in mud
C13_Witness ==
    /\ last.op = "process_turn"
    /\ turn = 2
    /\ last.intent[1] = "legal"
    /\ entry[1].cost >= 2
    /\ entry[1].elapsed = 1
    /\ player[1].mud_timer = entry[1].cost - 1
    /\ player[1].misses = 2

\* the movement fields of a player record
Movement(p) == <<p.current_pos, p.target_pos, p.mud_timer, p.misses>>

Other(i) == 3 - i

\* states the other player can be in: out of mud on any cell, or on a mud
\* edge of the map with any timer the edge allows
AltPlayers ==
    {PlayerState(c) : c \in Cells}
    \cup UNION {{[PlayerState(e[1]) EXCEPT !.target_pos = e[2], !.mud_timer = t] :
                    t \in 1 .. mud[e]} : e \in DOMAIN mud}

\* the players updated one after the other, player first before player second
OrderedMoves(pl, dirs, first, second) ==
    LET a == [pl EXCEPT ![first] = move_player(pl[first], dirs[first])]
    IN [a EXCEPT ![second] = move_player(pl[second], dirs[second])]

\* C14: the movement fields process_turn gives a player are the same whatever
\* the state and the direction of the other player; updating player 2 before
\* player 1 gives the same pair of records; the two may end on one cell
C14_PlayersIndependent ==
    \A i \in Players, d \in Direction :
        LET j == Other(i)
            dirs(dj) == [k \in Players |-> IF k = i THEN d ELSE dj]
            own == Movement(process_moves(player, dirs(Stay)).player[i])
        IN /\ \A q \in AltPlayers, dj \in Direction :
                 Movement(process_moves([player EXCEPT ![j] = q], dirs(dj)).player[i]) = own
           /\ \A dj \in Direction :
                 /\ process_moves(player, dirs(dj)).player = OrderedMoves(player, dirs(dj), 1, 2)
                 /\ OrderedMoves(player, dirs(dj), 1, 2) = OrderedMoves(player, dirs(dj), 2, 1)

\* both players out of mud on one cell that neither started on
C14_Witness ==
    /\ last.op = "process_turn"
    /\ player[1].current_pos = player[2].current_pos
    /\ player[1].current_pos \notin {c00, cTop}
    /\ player[1].mud_timer = 0 /\ player[2].mud_timer = 0
    /\ last.result.p1_moved /\ last.result.p2_moved

\* C15: a legal move along a mud edge {a, b} of cost k >= 2 puts the mover in
\* mud with mud_timer = k in whichever direction the edge is travelled, also
\* when the mud map the game was built from lists the pair in one order only
C15_MudCostBothWays ==
    [][last'.op \in TurnOps =>
          \A i \in Players :
              (player[i].mud_timer = 0 /\ last'.intent[i] = "legal") =>
                  LET k == MudMap_get(mud, player[i].current_pos, player'[i].target_pos)
                  IN k >= 2 => player'[i].mud_timer = k]_vars

Opposite(d) == (d + 2) % 4

\* C16: for every pair of adjacent cells (a, b) of the board the table allows
\* a -> b exactly when it allows b -> a, and a wall listed from either cell
\* blocks both directions, whatever side the wall map lists the wall from
C16_WallsSymmetric ==
    \A a \in BoardCells, d \in MoveDirections :
        LET b == apply_to(d, a) IN
        (b \in BoardCells /\ b # a) =>
            /\ is_move_valid(move_table, a, d) = is_move_valid(move_table, b, Opposite(d))
            /\ (<<a, b>> \in ListedPairs(wall_map) \/ <<b, a>> \in ListedPairs(wall_map)) =>
                  /\ ~is_move_valid(move_table, a, d)
                  /\ ~is_move_valid(move_table, b, Opposite(d))

\* C17: for every cell c and direction d of the four, is_move_valid(c, d) is
\* bit d of get_valid_moves(c), and that bit is set exactly when the
\* neighbour is on the board and the wall map lists no wall between the two
\* cells from either side; the packed table gives every cell, the last one
\* of an odd-sized board included, the mask computed for that cell alone
C17_TableMatchesWalls ==
    \A c \in BoardCells, d \in MoveDirections :
        LET n == apply_to(d, c)
            mask == get_valid_moves(move_table, c)
            bit == (mask \div Pow2(d)) % 2 = 1
            open == /\ n \in BoardCells
                    /\ n # c
                    /\ <<c, n>> \notin ListedPairs(wall_map)
                    /\ <<n, c>> \notin ListedPairs(wall_map)
        IN /\ is_move_valid(move_table, c, d) = bit
           /\ bit = open
           /\ mask = cell_moves(BoardWidth, BoardHeight, wall_map, c)

\* the cheese board keeps its cells and both counters in the step
CheeseUntouched == cheese' = cheese

\* C20: place_cheese returns true iff the cell was empty, and then sets it
\* and adds 1 to both counters; take_cheese returns true iff the cell held
\* cheese, and then clears it and takes 1 off remaining only; restore_cheese
\* returns true iff the cell was empty, and then sets it and adds 1 to
\* remaining only; a call that returns false changes nothing
C20_CheeseOpsResult ==
    [][LET idx == to_index(last'.pos, Width)
           was == has_cheese(cheese, last'.pos)
       IN /\ last'.op = "place_cheese" =>
                /\ last'.ok = ~was
                /\ last'.ok =>
                      /\ cheese'.bits = cheese.bits \cup {idx}
                      /\ cheese'.initial_cheese_count = cheese.initial_cheese_count + 1
                      /\ cheese'.remaining_cheese_count = cheese.remaining_cheese_count + 1
          /\ last'.op = "take_cheese" =>
                /\ last'.ok = was
                /\ last'.ok =>
                      /\ cheese'.bits = cheese.bits \ {idx}
                      /\ cheese'.initial_cheese_count = cheese.initial_cheese_count
                      /\ cheese'.remaining_cheese_count = cheese.remaining_cheese_count - 1
          /\ last'.op = "restore_cheese" =>
                /\ last'.ok = ~was
                /\ last'.ok =>
                      /\ cheese'.bits = cheese.bits \cup {idx}
                      /\ cheese'.initial_cheese_count = cheese.initial_cheese_count
                      /\ cheese'.remaining_cheese_count = cheese.remaining_cheese_count + 1
          /\ ~last'.ok => CheeseUntouched]_vars

\* restore_cheese on the cell of the one cheese of the board has returned
\* false
C20_Witness ==
    /\ last.op = "restore_cheese"
    /\ ~last.ok
    /\ has_cheese(cheese, last.pos)
    /\ cheese.initial_cheese_count = 1
    /\ cheese.remaining_cheese_count = 1

C19_RemainingAtMostInitial ==
    cheese.remaining_cheese_count <= cheese.initial_cheese_count

\* a cheese was taken for good, another was taken by a make_move and put
\* back by unmake_move
C19_Witness ==
    /\ last.op = "unmake_move"
    /\ last.restored = 1
    /\ undos = <<>>
    /\ cheese.initial_cheese_count = 3
    /\ cheese.remaining_cheese_count = 2

\* C21: after any sequence of inserts on pairs of adjacent cells, get(a, b)
\* and get(b, a) are both the value of the latest insert on the unordered
\* pair {a, b}, or None if there was none, and iter() yields each stored
\* unordered edge exactly once, with that value
C21_MudMapSymmetric ==
    /\ \A a \in Cells, b \in Cells :
          /\ MudMap_get(mud_map, a, b) = MudMap_get(mud_map, b, a)
          /\ MudMap_get(mud_map, a, b) =
                 IF {a, b} \in DOMAIN ghost.latest THEN ghost.latest[{a, b}] ELSE 0
    /\ \A e \in DOMAIN ghost.latest :
          /\ Cardinality({it \in MudMap_iter(mud_map) : {it[1][1], it[1][2]} = e}) = 1
          /\ \A it \in MudMap_iter(mud_map) :
                {it[1][1], it[1][2]} = e => it[2] = ghost.latest[e]
    /\ \A it \in MudMap_iter(mud_map) : {it[1][1], it[1][2]} \in DOMAIN ghost.latest
    /\ MudMap_len(mud_map) = Cardinality(DOMAIN ghost.latest)

\* two edges are stored: the latest insert named its cells in descending
\* order and gave the largest cost, and an edge holds cost 1
C21_Witness ==
    /\ MudMap_len(mud_map) = 2
    /\ ghost.call # <<>>
    /\ Coordinates_lt(ghost.call[2], ghost.call[1])
    /\ ghost.call[3] = MaxMud
    /\ \E e \in DOMAIN ghost.latest : ghost.latest[e] = 1

\* C22: two runs of the maze generation with the same configuration and the
\* same seed (the same draws at every step) return equal wall maps and equal
\* mud maps.
C22_SameSeedSameMaze ==
    (Len(runs) = 2 /\ all_at("done")) =>
        /\ runs[1].walls = runs[2].walls
        /\ runs[1].mud = runs[2].mud

\* the returned maze read from the outside: a wall between two cells is a
\* listing of one of them under the other, a passage is an adjacent pair
\* without a wall
maze_wall(g, a, b) ==
    \/ a \in DOMAIN g.walls /\ b \in g.walls[a]
    \/ b \in DOMAIN g.walls /\ a \in g.walls[b]

maze_passage(g, a, b) == Adjacent(a, b) /\ ~maze_wall(g, a, b)

\* one component: every split of the cells in two parts is crossed by a passage
one_component(g) ==
    \A part \in SUBSET MazeCells(g) :
        (part # {} /\ part # MazeCells(g)) =>
            \E a \in part, b \in MazeCells(g) \ part : maze_passage(g, a, b)

\* C23: whenever generate returns with connected = true, on any board, with
\* or without symmetry, the passages of the returned maze form exactly one
\* component.
C23_Connected ==
    \A i \in DOMAIN runs :
        (runs[i].pc = "done" /\ runs[i].connected) => one_component(runs[i])

\* a connected run has returned after ensure_full_connectivity had to open a
\* passage, on a board that is not square, and a wall is left
C23_Witness ==
    /\ all_at("done")
    /\ runs[1].connected /\ runs[1].joined
    /\ runs[1].width # runs[1].height
    /\ runs[1].walls # NoWalls

\* C24: in every returned maze every mud edge lies on a passage: no pair of
\* cells is both in the wall map and in the mud map.
C24_MudOnPassages ==
    \A i \in DOMAIN runs :
        runs[i].pc = "done" =>
            \A k \in DOMAIN runs[i].mud :
                /\ maze_passage(runs[i], k[1], k[2])
                /\ ~maze_wall(runs[i], k[1], k[2])

\* a run has returned a maze with mud and with walls
C24_Witness ==
    /\ all_at("done")
    /\ MudMap_len(runs[1].mud) >= 2
    /\ runs[1].walls # NoWalls
    /\ runs[1].joined

\* C25: with symmetry on, the returned maze is its own image under
\* mirror(x, y) = (W - 1 - x, H - 1 - y): a wall lies between a and b iff
\* one lies between their mirrors, and the mud between a and b costs what
\* the mud between their mirrors costs.
C25_MazeSymmetric ==
    \A i \in DOMAIN runs :
        (runs[i].pc = "done" /\ runs[i].symmetry) =>
            \A a \in MazeCells(runs[i]), b \in MazeCells(runs[i]) :
                Adjacent(a, b) =>
                    LET ma == <<runs[i].width - 1 - a[1], runs[i].height - 1 - a[2]>>
                        mb == <<runs[i].width - 1 - b[1], runs[i].height - 1 - b[2]>>
                    IN /\ maze_wall(runs[i], a, b) <=> maze_wall(runs[i], ma, mb)
                       /\ MudMap_get(runs[i].mud, a, b) = MudMap_get(runs[i].mud, ma, mb)

\* a symmetric run has returned a maze with walls and with mud on a pair
\* that is not its own mirror, after ensure_full_connectivity opened a passage
C25_Witness ==
    /\ all_at("done")
    /\ runs[1].symmetry /\ runs[1].joined
    /\ runs[1].walls # NoWalls
    /\ \E k \in DOMAIN runs[1].mud :
          {k[1], k[2]} # {maze_symmetric(runs[1], k[1]), maze_symmetric(runs[1], k[2])}

\* the call of generate and its result read from the outside
cheese_center == <<cheese_gen.width \div 2, cheese_gen.height \div 2>>

cheese_mirror(pos) == <<cheese_gen.width - 1 - pos[1], cheese_gen.height - 1 - pos[2]>>

cheese_set == {cheese_gen.pieces[i] : i \in DOMAIN cheese_gen.pieces}

odd_board == cheese_gen.width % 2 = 1 /\ cheese_gen.height % 2 = 1

\* C26: whenever generate(p1, p2) returns, in symmetric or asymmetric mode
\* and for any two player positions on the board, it returns exactly count
\* positions, all on the board, pairwise distinct, none of them p1 or p2.
C26_CheesePlacement ==
    cheese_gen.pc = "returned" =>
        /\ Len(cheese_gen.pieces) = cheese_gen.count
        /\ cheese_set \subseteq CheeseCells(cheese_gen)
        /\ Cardinality(cheese_set) = Len(cheese_gen.pieces)
        /\ cheese_gen.p1 \notin cheese_set
        /\ cheese_gen.p2 \notin cheese_set

\* C27: in symmetric mode the returned set is closed under the 180 degree
\* rotation; with an odd count the centre is in the set and is its only
\* self-mirrored cell; with an even count the set has no self-mirrored cell.
C27_CheeseSymmetric ==
    (cheese_gen.pc = "returned" /\ cheese_gen.symmetry) =>
        /\ \A pos \in cheese_set : cheese_mirror(pos) \in cheese_set
        /\ cheese_gen.count % 2 = 1 =>
              /\ odd_board
              /\ cheese_center \in cheese_set
              /\ \A pos \in cheese_set : pos = cheese_mirror(pos) => pos = cheese_center
        /\ cheese_gen.count % 2 = 0 =>
              \A pos \in cheese_set : pos # cheese_mirror(pos)

\* a symmetric call with an odd count of at least three has returned
C27_Witness ==
    /\ cheese_gen.pc = "returned"
    /\ cheese_gen.symmetry
    /\ cheese_gen.count % 2 = 1
    /\ cheese_gen.count >= 3

\* C28: generate panics when symmetry is on, the count is odd and the width
\* or the height is even, and it panics when the candidates run out before
\* count pieces are placed; it never returns fewer than count positions.
C28_CheesePanics ==
    [][ /\ (/\ cheese_gen.pc = "start"
             /\ cheese_gen.symmetry /\ cheese_gen.count % 2 = 1
             /\ ~odd_board) => cheese_gen'.pc = "panic"
        /\ (/\ cheese_gen.pc = "place"
             /\ cheese_gen.candidates = <<>>
             /\ cheese_gen.remaining > 0) => cheese_gen'.pc = "panic"
        /\ cheese_gen'.pc = "returned" =>
              Len(cheese_gen'.pieces) >= cheese_gen'.count ]_vars

\* the candidates of an asymmetric call ran out after some pieces were
\* placed, and the call panicked
C28_Witness ==
    /\ cheese_gen.pc = "panic"
    /\ cheese_gen.message = "Too many pieces of cheese"
    /\ ~cheese_gen.symmetry
    /\ cheese_gen.candidates = <<>>
    /\ Len(cheese_gen.pieces) >= 2
    /\ Len(cheese_gen.pieces) < cheese_gen.count

centre_taken ==
    /\ cheese_gen.symmetry
    /\ cheese_gen.count % 2 = 1
    /\ odd_board
    /\ cheese_center \in {cheese_gen.p1, cheese_gen.p2}

\* C29: in symmetric mode with an odd count on a board of odd width and odd
\* height whose centre is a player position, generate never returns a
\* placement: the loop ends in the overflow panic or with remaining # 0, on
\* which the final assertion panics.
C29_CentreTaken ==
    centre_taken =>
        /\ cheese_gen.pc # "returned"
        /\ cheese_gen.pc = "place" => cheese_gen.remaining # 0

\* such a call has panicked in the final assertion of the build without
\* overflow checks, after remaining wrapped around
C29_Witness ==
    /\ centre_taken
    /\ cheese_gen.pc = "panic"
    /\ cheese_gen.message = "Too many pieces of cheese"
    /\ cheese_gen.remaining > cheese_gen.count

\* C30: in asymmetric mode, with two distinct player positions, generate
\* succeeds for every count up to W * H - 2.
C30_AsymmetricFits ==
    (/\ ~cheese_gen.symmetry
     /\ cheese_gen.p1 # cheese_gen.p2
     /\ cheese_gen.count <= cheese_gen.width * cheese_gen.height - 2)
        => cheese_gen.pc # "panic"

\* C34: when a player that is not in mud makes a legal move along an edge
\* whose mud cost is missing or 1, the move commits in the same turn: after
\* the turn current_pos and target_pos are both the destination cell (the
\* adjacent cell the turn has set as target) and mud_timer is 0.
C34_CommitsAtOnce ==
    [][last'.op \in TurnOps =>
          \A i \in Players :
              (/\ player[i].mud_timer = 0
               /\ last'.intent[i] = "legal"
               /\ mud_get(player[i].current_pos, player'[i].target_pos) <= 1) =>
                  /\ player'[i].target_pos # player[i].current_pos
                  /\ player'[i].current_pos = player'[i].target_pos
                  /\ player'[i].mud_timer = 0]_vars

\* C35: in every state reached, a player with mud_timer > 0 has current_pos
\* # target_pos, the two cells are adjacent, and mud_timer is at most the mud
\* cost of the edge between them; a turn that a player starts in mud takes
\* exactly 1 off its mud_timer and leaves current_pos and target_pos as they
\* are while the timer has not reached 0.
C35_MudTraversal ==
    [][/\ \A i \in Players :
             player'[i].mud_timer > 0 =>
                 /\ player'[i].current_pos # player'[i].target_pos
                 /\ Adjacent(player'[i].current_pos, player'[i].target_pos)
                 /\ player'[i].mud_timer
                        <= MudMap_get(mud, player'[i].current_pos, player'[i].target_pos)
       /\ last'.op \in TurnOps =>
             \A i \in Players :
                 player[i].mud_timer > 0 =>
                     /\ player'[i].mud_timer = player[i].mud_timer - 1
                     /\ player'[i].mud_timer > 0 =>
                           /\ player'[i].current_pos = player[i].current_pos
                           /\ player'[i].target_pos = player[i].target_pos]_vars

\* C37: in every state reached from a new game through process_turn,
\* make_move and LIFO unmake_move, the two scores and the remaining cheese
\* add up to the initial cheese count (scores are kept in half points).
C37_CheeseConserved ==
    player[1].score + player[2].score + 2 * cheese.remaining_cheese_count
        = 2 * cheese.initial_cheese_count

\* an unmake_move has put a cheese back while an earlier one stays
\* collected and another one is still on the board
C37_Witness ==
    /\ last.op = "unmake_move"
    /\ last.restored >= 1
    /\ player[1].score + player[2].score >= 2
    /\ cheese.remaining_cheese_count >= 2

\* C38: once a process_turn call has returned game_over = true, the next
\* process_turn call on the same game returns game_over = true as well, and
\* so does every later one.
C38_GameOverStays ==
    [][(/\ last.op = "process_turn" /\ last.result.game_over
        /\ last'.op = "process_turn") => last'.result.game_over]_vars

\* C33: constructing a game from a cheese position list that holds the same
\* cell twice fails at the point of construction: no game comes out of such
\* a call.
C33_DuplicateCheeseFails ==
    (\E i \in DOMAIN ghost.cheese_positions, j \in DOMAIN ghost.cheese_positions :
        i # j /\ ghost.cheese_positions[i] = ghost.cheese_positions[j])
        => ghost.pc # "constructed"

\* C31: a handler built from a game and driven by process_turn with
\* update_collected_cheese on what each turn collected, refresh_cheese being
\* called at will: the cheese matrix holds 1 exactly at the cells where the
\* cheese board has a cheese, and 0 everywhere else.
C31_CheeseMatrixAgrees ==
    \A pos \in Cells :
        /\ observation_handler.cheese_matrix[pos] \in {0, 1}
        /\ observation_handler.cheese_matrix[pos] = 1 <=> has_cheese(cheese, pos)

\* a turn has collected a cheese while another one is still on the board
C31_Witness ==
    /\ last.op = "step"
    /\ last.result.collected_cheese # <<>>
    /\ cheese.remaining_cheese_count >= 1
    /\ \E pos \in Cells : observation_handler.cheese_matrix[pos] = 1

\* the entry of the movement matrix for pos and dir encodes the move
\* table's verdict and the mud cost of the edge
encodes_move(pos, dir) ==
    LET v == observation_handler.movement_constraints[<<pos, dir>>]
        valid == is_move_valid(move_table, pos, dir)
        cost == MudMap_get(mud, pos, apply_to(dir, pos))
    IN /\ v = -1 <=> ~valid
       /\ \A k \in 2 .. U8Max : v = k <=> (valid /\ cost = k)
       /\ v = 0 <=> (valid /\ cost = 0)

\* C32: for every cell and each of the four directions the movement matrix
\* holds -1 exactly when the move table denies the move, k exactly when the
\* move is valid and the edge has mud cost k >= 2, and 0 exactly when the
\* move is valid and the edge has no mud; no step, make_move or unmake_move
\* changes the matrix.
C32_MovementMatrix ==
    /\ [](\A pos \in Cells, dir \in MoveDirections : encodes_move(pos, dir))
    /\ [][observation_handler'.movement_constraints =
              observation_handler.movement_constraints]_vars

\* C39: for a game wrapped with its observation handler, after each of
\* step, make_move and unmake_move, in any interleaving, the cheese matrix
\* agrees with the cheese board.
C39_WrappedCheeseAgrees ==
    last.op \in {"step", "make_move", "unmake_move"} =>
        observation_handler.cheese_matrix = cheese_matrix_of(cheese)

\* C40: after reset the observation is the one of the newly generated game:
\* the movement matrix is the one of the new move table and mud map, and the
\* cheese matrix is the one of the new cheese board.
C40_ResetObservation ==
    last.op = "reset" =>
        /\ observation_handler.movement_constraints =
               MovementConstraints_new(move_table, mud)
        /\ observation_handler.cheese_matrix = cheese_matrix_of(cheese)

\* the connected components of the passages of a run
components(g) == {reach(g.connections, {c}) : c \in MazeCells(g)}

\* a round of the connectivity loop from g to h on a maze that is not
\* connected: the first two components in scan order hold an adjacent pair,
\* the round opens a passage between such a pair and is left with fewer
\* components
joins_first_two(g, h) ==
    LET component1 == reach(g.connections, {<<0, 0>>})
        component2 == reach(g.connections, {first_cell(g, MazeCells(g) \ component1)})
    IN /\ \E a \in component1, b \in component2 :
            /\ Adjacent(a, b)
            /\ ~has_connection(g, a, b)
            /\ has_connection(h, a, b) /\ has_connection(h, b, a)
       /\ Cardinality(components(h)) < Cardinality(components(g))

\* C36: the connectivity phase of the maze generator terminates on every
\* board and for every outcome of the draws: each round of its loop on a
\* maze with more than one component finds an adjacent pair between the
\* first two components (the fallback for a non-adjacent pair is never
\* taken), opens a passage between such a pair and strictly lowers the
\* number of components; the phase is always left.
C36_ConnectivityTerminates ==
    /\ [][\A i \in DOMAIN runs :
            (runs[i].pc = "connect" /\ Cardinality(components(runs[i])) > 1) =>
                joins_first_two(runs[i], runs'[i])]_vars
    /\ (all_at("connect") ~> all_at("border"))

\* the phase has been left after its loop opened a passage, on a board
\* without symmetry that is not square
C36_Witness ==
    /\ all_at("border")
    /\ runs[1].joined /\ ~runs[1].symmetry
    /\ runs[1].width # runs[1].height
    /\ Cardinality(components(runs[1])) = 1
====
